---------------------------- MODULE Spec2Model ----------------------------
(***************************************************************************)
(* The Horizon add-on (horizon.py): seven operators over the host's scene. *)
(* The scene is the host's: objects with a transform, mesh data, material  *)
(* slots, vertex groups, custom properties and a modifier stack, the       *)
(* material datablocks (bpy.data.materials), the active-object pointer and *)
(* the interaction mode.  Each operator's execute is one action.           *)
(***************************************************************************)
EXTENDS Integers, Sequences, FiniteSets, TLC

VARIABLES
    objects,                  \* the scene's objects: name -> datablock
    materials,                \* bpy.data.materials: material id -> name
    active,                   \* context.view_layer.objects.active
    mode,                     \* the interaction mode, "OBJECT" or "EDIT"
    pivot,                    \* tool setting read by transform.resize
    horizon_scale_factor,     \* scene parameter, a rational <<num, den>>
    horizon_mat_prefix,       \* scene parameter
    horizon_mat_suffix,       \* scene parameter
    horizon_remove_material,  \* scene parameter, a material id or None
    op,                       \* the operator whose execute ran last
    status,                   \* what that execute returned
    reports,                  \* what it passed to self.report
    run,                      \* what that execute did: order, writes, log
    pre,                      \* the scene when that execute was entered
    hist                      \* the executes before the last one

vars == <<objects, materials, active, mode, pivot, horizon_scale_factor,
          horizon_mat_prefix, horizon_mat_suffix, horizon_remove_material,
          op, status, reports, run, pre, hist>>

None == "None"

(***************************************************************************)
(* Bounds of the model.                                                    *)
(***************************************************************************)
MaxOps == 2        \* executes per behaviour
MaxSlots == 2      \* material slots of the first mesh
MaxFaces == 2      \* faces of a mesh
MaxMods == 1       \* modifiers a mesh starts with

(***************************************************************************)
(* The scene's objects and materials.                                      *)
(***************************************************************************)
Obj == {"Cube", "Wall", "Empty"}
ObjType == [o \in Obj |-> IF o = "Empty" THEN "EMPTY" ELSE "MESH"]
Mat == {"m1", "m2", "m3"}

(***************************************************************************)
(* Rationals <<n, d>> with d > 0, in lowest terms (the host's floats,      *)
(* without their rounding).                                                *)
(***************************************************************************)
RECURSIVE GCD(_, _)
GCD(a, b) == IF b = 0 THEN a ELSE GCD(b, a % b)

Abs(n) == IF n < 0 THEN -n ELSE n

Norm(n, d) ==
    LET g == GCD(Abs(n), Abs(d))
        s == IF d < 0 THEN -1 ELSE 1
    IN  IF n = 0 THEN <<0, 1>> ELSE <<s * (n \div g), s * (d \div g)>>

RMul(x, y) == Norm(x[1] * y[1], x[2] * y[2])
RAdd(x, y) == Norm(x[1] * y[2] + y[1] * x[2], x[2] * y[2])
RInv(x) == Norm(x[2], x[1])
RLeqZero(x) == x[1] <= 0
One == <<1, 1>>
Zero == <<0, 1>>

(***************************************************************************)
(* Python's str and list operations, as the code uses them.                *)
(***************************************************************************)
startswith(s, p) == Len(p) <= Len(s) /\ SubSeq(s, 1, Len(p)) = p

endswith(s, x) == Len(x) <= Len(s) /\ SubSeq(s, Len(s) - Len(x) + 1, Len(s)) = x

\* s[k:]
SliceFrom(s, k) == SubSeq(s, (IF k < Len(s) THEN k ELSE Len(s)) + 1, Len(s))

\* s[:e], e of either sign: a negative e counts from the end, and -0 is 0
SliceTo(s, e) ==
    LET stop == IF e < 0 THEN (IF Len(s) + e < 0 THEN 0 ELSE Len(s) + e)
                ELSE (IF e < Len(s) THEN e ELSE Len(s))
    IN  SubSeq(s, 1, stop)

RECURSIVE SeqsUpTo(_, _)
SeqsUpTo(S, n) ==
    IF n = 0 THEN {<<>>}
    ELSE LET shorter == SeqsUpTo(S, n - 1)
         IN  shorter \cup {Append(q, x) : q \in shorter, x \in S}

\* the orders in which the host may list a set of objects
Orders(S) ==
    {q \in [1..Cardinality(S) -> S] : \A i, j \in 1..Cardinality(S) : q[i] = q[j] => i = j}

RemoveAt(s, i) == SubSeq(s, 1, i - 1) \o SubSeq(s, i + 1, Len(s))

RECURSIVE SortedDesc(_)
\* sorted(S, reverse=True) of a set of numbers
SortedDesc(S) ==
    IF S = {} THEN <<>>
    ELSE LET m == CHOOSE x \in S : \A y \in S : y <= x
         IN  <<m>> \o SortedDesc(S \ {m})

(***************************************************************************)
(* The host (bpy), as far as the operators use it.  A context c is the     *)
(* scene an execute works on: c.objects, c.materials, c.active, c.mode,    *)
(* and what the execute did so far: c.writes (the values it assigned to    *)
(* the active-object pointer), c.edited (the objects that were active when *)
(* it asked for edit mode), c.log (Clean Up Mats: one entry per mesh) and  *)
(* c.slotlog (Clean Up Mats: one entry per slot of the rename pass).       *)
(***************************************************************************)
Ctx ==
    [objects |-> objects, materials |-> materials, active |-> active,
     mode |-> mode, writes |-> <<>>, edited |-> {}, log |-> <<>>,
     slotlog |-> <<>>]

\* context.selected_objects, as a set
selected_objects(obs) == {o \in Obj : obs[o].select}

SelectedMeshesAll(obs) == selected_objects(obs)

\* [obj for obj in context.selected_objects if obj.type == 'MESH']
SelectedMeshes(obs) == {o \in selected_objects(obs) : obs[o].type = "MESH"}

\* context.view_layer.objects.active = obj
SetActive(c, obj) == [c EXCEPT !.active = obj, !.writes = Append(@, obj)]

RestoreActiveSkipped(c, active_obj) == c

\* "Restore active object": context.view_layer.objects.active = active_obj
RestoreActive(c, active_obj) == SetActive(c, active_obj)

\* bpy.ops.transform.resize(value=(v, v, v)): every selected object is scaled
\* about the pivot (its own origin, or the 3D cursor at the world origin)
transform_resize(c, v) ==
    [c EXCEPT !.objects =
        [o \in Obj |->
            IF c.objects[o].select
            THEN [c.objects[o] EXCEPT
                    !.scale = RMul(@, v),
                    !.location = IF pivot = "CURSOR" THEN RMul(@, v) ELSE @]
            ELSE c.objects[o]]]

\* bpy.ops.object.transform_apply(location, rotation, scale) on the active
\* object: the chosen parts of its transform are folded into its data (the
\* vertex coordinate co, the data's orientation rot) and reset
transform_apply(c, loc, rot, scl) ==
    LET o == c.active
        ob == c.objects[o]
        scaled == IF scl THEN RMul(ob.co, ob.scale) ELSE ob.co
        moved == IF loc THEN RAdd(scaled, ob.location) ELSE scaled
    IN  [c EXCEPT !.objects[o] =
            [ob EXCEPT !.co = moved,
                       !.scale = IF scl THEN One ELSE @,
                       !.location = IF loc THEN Zero ELSE @,
                       !.data_rotation = IF rot THEN (@ + ob.rotation) % 4 ELSE @,
                       !.rotation = IF rot THEN 0 ELSE @]]

ApplyEverything(c) == transform_apply(c, TRUE, TRUE, TRUE)

\* bpy.ops.object.transform_apply(location=False, rotation=False, scale=True)
ApplyScale(c) == transform_apply(c, FALSE, FALSE, TRUE)

Min(a, b) == IF a < b THEN a ELSE b
Max(a, b) == IF a < b THEN b ELSE a

\* obj.active_material_index = i (the host clamps it to the slots there are)
SetActiveMaterialIndex(c, o, i) ==
    [c EXCEPT !.objects[o].active_material_index =
        Max(0, Min(i, Len(c.objects[o].material_slots) - 1))]

\* bpy.ops.object.material_slot_remove(): the active object loses the slot at
\* its active_material_index; the faces above it move down one slot
material_slot_remove(c) ==
    LET o == c.active
        ob == c.objects[o]
        i == ob.active_material_index
        n == Len(ob.material_slots)
    IN  IF n = 0 THEN c
        ELSE [c EXCEPT !.objects[o] =
                [ob EXCEPT
                    !.material_slots = RemoveAt(@, i + 1),
                    !.active_material_index = Max(0, Min(i, n - 2)),
                    !.faces = [k \in 1..Len(ob.faces) |->
                        [ob.faces[k] EXCEPT !.material_index =
                            IF @ > 0 /\ @ >= i THEN @ - 1 ELSE @]]]]

\* bpy.ops.object.mode_set(mode=m)
mode_set(c, m) ==
    [c EXCEPT !.mode = m,
              !.edited = IF m = "EDIT" THEN @ \cup {c.active} ELSE @]

\* bpy.ops.mesh.select_all(action='DESELECT') on the mesh being edited
select_all_deselect(c) ==
    LET o == c.active
    IN  [c EXCEPT !.objects[o].faces =
            [k \in 1..Len(c.objects[o].faces) |->
                [c.objects[o].faces[k] EXCEPT !.select = FALSE]]]

select_all_nothing(c) == c

\* "Deselect all"
DeselectAll(c) == select_all_deselect(c)

\* bpy.ops.mesh.delete(type='FACE'): the selected faces of the edited mesh go
IsUnselectedFace(f) == ~f.select

mesh_delete_faces(c) ==
    LET o == c.active
    IN  [c EXCEPT !.objects[o].faces = SelectSeq(@, IsUnselectedFace)]

\* the names the host gives when the wanted one is taken: name, name.001, ...
NameSuffixes == <<"", ".001", ".002", ".003", ".004", ".005", ".006", ".007">>

UniqueName(base, taken) ==
    LET free == {k \in 1..Len(NameSuffixes) : (base \o NameSuffixes[k]) \notin taken}
        k == CHOOSE x \in free : \A y \in free : x <= y
    IN  base \o NameSuffixes[k]

\* bpy.data.materials.get(name): the material of that name, or None
materials_get(mats, name) ==
    IF \E m \in Mat : mats[m] = name
    THEN CHOOSE m \in Mat : mats[m] = name
    ELSE None

\* material.name = name: the host never keeps an empty name (it falls back to
\* the datablock type's name) and never lets two materials share one
material_rename(mats, m, name) ==
    LET base == IF name = "" THEN "Material" ELSE name
        taken == {mats[x] : x \in Mat \ {m}}
    IN  [mats EXCEPT ![m] = UniqueName(base, taken)]

\* obj.modifiers.new(name=name, type=type): appended, with the host's defaults
modifiers_new(c, o, name, type) ==
    LET taken == {c.objects[o].modifiers[k].name : k \in 1..Len(c.objects[o].modifiers)}
    IN  [c EXCEPT !.objects[o].modifiers =
            Append(@, [name |-> UniqueName(name, taken), type |-> type,
                       quad_method |-> "SHORTEST_DIAGONAL",
                       ngon_method |-> "BEAUTY",
                       keep_custom_normals |-> FALSE])]

(***************************************************************************)
(* The operators.  Each execute is a function of the context, the scene    *)
(* parameters it reads and the list the host gives for the selection; it   *)
(* yields the status returned, the reports made and the context left.      *)
(***************************************************************************)
Warning(msg) == <<"WARNING", msg>>

Cancelled(c, reps) == [status |-> "CANCELLED", reports |-> reps, c |-> c]

Finished(c) == [status |-> "FINISHED", reports |-> <<>>, c |-> c]

RECURSIVE ApplyScaleLoop(_, _)
\* for obj in selected_objs: make obj active, apply its scale
ApplyScaleLoop(c, selected_objs) ==
    IF selected_objs = <<>> THEN c
    ELSE ApplyScaleLoop(ApplyScale(SetActive(c, Head(selected_objs))),
                        Tail(selected_objs))

\* HorizonScaleUpOperator.execute
ScaleUpExecute(c, factor, selected_objs) ==
    IF RLeqZero(factor) THEN Cancelled(c, <<>>)
    ELSE IF selected_objs = <<>>
    THEN Cancelled(c, <<Warning("No objects selected")>>)
    ELSE LET active_obj == c.active
             resized == transform_resize(c, factor)
             applied == ApplyScaleLoop(resized, selected_objs)
         IN  Finished(RestoreActive(applied, active_obj))

\* HorizonScaleDownOperator.execute
ScaleDownExecute(c, factor, selected_objs) ==
    IF RLeqZero(factor) THEN Cancelled(c, <<>>)
    ELSE IF selected_objs = <<>>
    THEN Cancelled(c, <<Warning("No objects selected")>>)
    ELSE LET active_obj == c.active
             resized == transform_resize(c, RInv(factor))
             applied == ApplyScaleLoop(resized, selected_objs)
         IN  Finished(RestoreActive(applied, active_obj))

to_remove_first_only == {"models/DefaultMaterial.vertex"}

to_remove == {"models/DefaultMaterial.vertex", "textures/__TB_empty.vertex"}

\* the indices (from 0) of the slots whose material is on the deny-list
slots_to_remove(c, obj) ==
    LET slots == c.objects[obj].material_slots
    IN  {i \in 0..(Len(slots) - 1) :
            slots[i + 1] # None /\ c.materials[slots[i + 1]] \in to_remove}

RECURSIVE RemoveSlots(_, _, _)
\* for i in order: obj.active_material_index = i; material_slot_remove()
RemoveSlots(c, obj, order) ==
    IF order = <<>> THEN c
    ELSE RemoveSlots(material_slot_remove(SetActiveMaterialIndex(c, obj, Head(order))),
                     obj, Tail(order))

\* the name a matching material is to get: prefix cut, then suffix cut
Extracted(mat_name, prefix, suffix) ==
    LET stripped == SliceFrom(mat_name, Len(prefix))
    IN  IF endswith(stripped, suffix)
        THEN SliceTo(stripped, 0 - Len(suffix))
        ELSE stripped

\* one slot of "Process remaining materials": slot k (from 1) of obj
ProcessSlot(c, obj, k, prefix, suffix) ==
    LET mat == c.objects[obj].material_slots[k]
        mat_name == c.materials[mat]
        extracted == Extracted(mat_name, prefix, suffix)
        existing_mat == materials_get(c.materials, extracted)
        entry(what) ==
            [obj |-> obj, slot |-> k, material |-> mat, mat_name |-> mat_name,
             what |-> what, extracted |-> extracted, existing |-> existing_mat,
             names |-> c.materials]
    IN  IF mat = None THEN c
        ELSE IF ~startswith(mat_name, prefix)
        THEN [c EXCEPT !.slotlog = Append(@, entry("untouched"))]
        ELSE IF existing_mat # None
        THEN [c EXCEPT !.objects[obj].material_slots[k] = existing_mat,
                       !.slotlog = Append(@, entry("rebound"))]
        ELSE [c EXCEPT !.materials = material_rename(@, mat, extracted),
                       !.slotlog = Append(@, entry("renamed"))]

RECURSIVE ProcessSlots(_, _, _, _, _)
\* for slot in obj.material_slots, from slot k on
ProcessSlots(c, obj, k, prefix, suffix) ==
    IF k > Len(c.objects[obj].material_slots) THEN c
    ELSE ProcessSlots(ProcessSlot(c, obj, k, prefix, suffix), obj, k + 1,
                      prefix, suffix)

\* the body of Clean Up Mats' loop, for one mesh
CleanUpObj(c, obj, prefix, suffix) ==
    LET act == SetActive(c, obj)
        order == SortedDesc(slots_to_remove(act, obj))
        removed == RemoveSlots(act, obj, order)
        entry == [obj |-> obj,
                  scan_slots |-> act.objects[obj].material_slots,
                  scan_names |-> act.materials,
                  removed |-> order,
                  kept |-> removed.objects[obj].material_slots]
        logged == [removed EXCEPT !.log = Append(@, entry)]
    IN  ProcessSlots(logged, obj, 1, prefix, suffix)

RECURSIVE CleanUpLoop(_, _, _, _)
CleanUpLoop(c, selected_objs, prefix, suffix) ==
    IF selected_objs = <<>> THEN c
    ELSE CleanUpLoop(CleanUpObj(c, Head(selected_objs), prefix, suffix),
                     Tail(selected_objs), prefix, suffix)

\* HorizonCleanUpMatsOperator.execute
CleanUpMatsExecute(c, prefix, suffix, selected_objs) ==
    IF selected_objs = <<>>
    THEN Cancelled(c, <<Warning("No meshes selected")>>)
    ELSE LET active_obj == c.active
             done == CleanUpLoop(c, selected_objs, prefix, suffix)
         IN  Finished(RestoreActive(done, active_obj))

\* the indices (from 0) of obj's slots bound to mat
slot_indices(c, obj, mat) ==
    LET slots == c.objects[obj].material_slots
    IN  {i \in 0..(Len(slots) - 1) : slots[i + 1] = mat}

\* for face in mesh.faces: if face.material_index in indices: face.select = True
SelectFaces(c, obj, indices) ==
    [c EXCEPT !.objects[obj].faces =
        [k \in 1..Len(c.objects[obj].faces) |->
            IF c.objects[obj].faces[k].material_index \in indices
            THEN [c.objects[obj].faces[k] EXCEPT !.select = TRUE]
            ELSE c.objects[obj].faces[k]]]

\* the body of Remove Geo's loop, for one mesh
RemoveGeoObj(c, obj, mat) ==
    LET act == SetActive(c, obj)
        indices == slot_indices(act, obj, mat)
        edit == mode_set(act, "EDIT")
        picked == SelectFaces(DeselectAll(edit), obj, indices)
        deleted == mesh_delete_faces(picked)
    IN  IF indices = {} THEN act ELSE mode_set(deleted, "OBJECT")

RECURSIVE RemoveGeoLoop(_, _, _)
RemoveGeoLoop(c, selected_meshes, mat) ==
    IF selected_meshes = <<>> THEN c
    ELSE RemoveGeoLoop(RemoveGeoObj(c, Head(selected_meshes), mat),
                       Tail(selected_meshes), mat)

\* HorizonRemoveGeoOperator.execute
RemoveGeoExecute(c, mat, selected_meshes) ==
    IF mat = None THEN Cancelled(c, <<Warning("No material selected")>>)
    ELSE IF selected_meshes = <<>>
    THEN Cancelled(c, <<Warning("No meshes selected")>>)
    ELSE LET active_obj == c.active
             done == RemoveGeoLoop(c, selected_meshes, mat)
         IN  Finished(RestoreActive(done, active_obj))

RECURSIVE RemoveAllVertexGroups(_, _)
\* while obj.vertex_groups: obj.vertex_groups.remove(obj.vertex_groups[0])
RemoveAllVertexGroups(c, obj) ==
    IF c.objects[obj].vertex_groups = <<>> THEN c
    ELSE RemoveAllVertexGroups([c EXCEPT !.objects[obj].vertex_groups = Tail(@)], obj)

RECURSIVE RemoveVertGroupsLoop(_, _)
RemoveVertGroupsLoop(c, selected_meshes) ==
    IF selected_meshes = <<>> THEN c
    ELSE RemoveVertGroupsLoop(
            RemoveAllVertexGroups(SetActive(c, Head(selected_meshes)),
                                  Head(selected_meshes)),
            Tail(selected_meshes))

\* HorizonRemoveVertGroupsOperator.execute
RemoveVertGroupsExecute(c, selected_meshes) ==
    IF selected_meshes = <<>>
    THEN Cancelled(c, <<Warning("No meshes selected")>>)
    ELSE LET active_obj == c.active
             done == RemoveVertGroupsLoop(c, selected_meshes)
         IN  Finished(RestoreActive(done, active_obj))

\* for key in list(obj.keys()): if key not in ['_RNA_UI']: del obj[key]
RemoveKeys(c, obj) ==
    [c EXCEPT !.objects[obj].keys = {key \in @ : key \in {"_RNA_UI"}}]

RECURSIVE RemoveCustPropsLoop(_, _)
RemoveCustPropsLoop(c, selected_objs) ==
    IF selected_objs = <<>> THEN c
    ELSE RemoveCustPropsLoop(
            RemoveKeys(SetActive(c, Head(selected_objs)), Head(selected_objs)),
            Tail(selected_objs))

\* HorizonRemoveCustPropsOperator.execute
RemoveCustPropsExecute(c, selected_objs) ==
    IF selected_objs = <<>>
    THEN Cancelled(c, <<Warning("No objects selected")>>)
    ELSE LET active_obj == c.active
             done == RemoveCustPropsLoop(c, selected_objs)
         IN  Finished(RestoreActive(done, active_obj))

AddTriangulateUnlessPresent(c, obj) ==
    IF \E k \in 1..Len(c.objects[obj].modifiers) :
            c.objects[obj].modifiers[k].type = "TRIANGULATE"
    THEN c
    ELSE LET made == modifiers_new(c, obj, "Triangulate", "TRIANGULATE")
             n == Len(made.objects[obj].modifiers)
         IN  [made EXCEPT !.objects[obj].modifiers[n] =
                [@ EXCEPT !.quad_method = "BEAUTY", !.ngon_method = "BEAUTY",
                          !.keep_custom_normals = TRUE]]

\* mod = obj.modifiers.new(...); the three settings of mod
AddTriangulate(c, obj) ==
    LET made == modifiers_new(c, obj, "Triangulate", "TRIANGULATE")
        n == Len(made.objects[obj].modifiers)
    IN  [made EXCEPT !.objects[obj].modifiers[n] =
            [@ EXCEPT !.quad_method = "BEAUTY", !.ngon_method = "BEAUTY",
                      !.keep_custom_normals = TRUE]]

RECURSIVE TriangulateLoop(_, _)
TriangulateLoop(c, selected_objs) ==
    IF selected_objs = <<>> THEN c
    ELSE TriangulateLoop(
            AddTriangulate(SetActive(c, Head(selected_objs)), Head(selected_objs)),
            Tail(selected_objs))

\* HorizonTriangulateModOperator.execute
TriangulateModExecute(c, selected_objs) ==
    IF selected_objs = <<>>
    THEN Cancelled(c, <<Warning("No meshes selected")>>)
    ELSE LET active_obj == c.active
             done == TriangulateLoop(c, selected_objs)
         IN  Finished(RestoreActive(done, active_obj))

(***************************************************************************)
(* The actions: the host invokes an operator's execute on the scene as it  *)
(* stands, with the selection listed in some order.  The scene at entry    *)
(* and what execute did are kept for the properties to read.               *)
(***************************************************************************)
Scene ==
    [objects |-> objects, materials |-> materials, active |-> active,
     mode |-> mode, horizon_scale_factor |-> horizon_scale_factor,
     horizon_mat_prefix |-> horizon_mat_prefix,
     horizon_mat_suffix |-> horizon_mat_suffix,
     horizon_remove_material |-> horizon_remove_material]

Steps == Len(hist) + (IF op = None THEN 0 ELSE 1)

Execute(name, r, listed) ==
    /\ Steps < MaxOps
    /\ objects' = r.c.objects
    /\ materials' = r.c.materials
    /\ active' = r.c.active
    /\ mode' = r.c.mode
    /\ op' = name
    /\ status' = r.status
    /\ reports' = r.reports
    /\ run' = [listed |-> listed, writes |-> r.c.writes, edited |-> r.c.edited,
               log |-> r.c.log, slotlog |-> r.c.slotlog]
    /\ pre' = Scene
    /\ hist' = IF op = None THEN hist
               ELSE Append(hist, [op |-> op, status |-> status, pre |-> pre])
    /\ UNCHANGED <<pivot, horizon_scale_factor, horizon_mat_prefix,
                   horizon_mat_suffix, horizon_remove_material>>

\* transform_apply is an object-mode operator of the host: outside object
\* mode the call raises and execute returns no status, so only the runs
\* that return are steps here
HorizonScaleUpOperator ==
    \E selected_objs \in Orders(selected_objects(objects)) :
        LET r == ScaleUpExecute(Ctx, horizon_scale_factor, selected_objs)
        IN  /\ mode = "OBJECT" \/ r.status = "CANCELLED"
            /\ Execute("horizon.scale_up", r, selected_objs)

HorizonScaleDownOperator ==
    \E selected_objs \in Orders(selected_objects(objects)) :
        LET r == ScaleDownExecute(Ctx, horizon_scale_factor, selected_objs)
        IN  /\ mode = "OBJECT" \/ r.status = "CANCELLED"
            /\ Execute("horizon.scale_down", r, selected_objs)

HorizonCleanUpMatsOperator ==
    \E selected_objs \in Orders(SelectedMeshes(objects)) :
        Execute("horizon.clean_up_mats",
                CleanUpMatsExecute(Ctx, horizon_mat_prefix, horizon_mat_suffix,
                                   selected_objs),
                selected_objs)

HorizonRemoveGeoOperator ==
    \E selected_meshes \in Orders(SelectedMeshes(objects)) :
        Execute("horizon.remove_geo",
                RemoveGeoExecute(Ctx, horizon_remove_material, selected_meshes),
                selected_meshes)

HorizonRemoveVertGroupsOperator ==
    \E selected_meshes \in Orders(SelectedMeshes(objects)) :
        Execute("horizon.remove_vert_groups",
                RemoveVertGroupsExecute(Ctx, selected_meshes), selected_meshes)

HorizonRemoveCustPropsOperator ==
    \E selected_objs \in Orders(selected_objects(objects)) :
        Execute("horizon.remove_cust_props",
                RemoveCustPropsExecute(Ctx, selected_objs), selected_objs)

HorizonTriangulateModOperator ==
    \E selected_objs \in Orders(SelectedMeshes(objects)) :
        Execute("horizon.triangulate_mod",
                TriangulateModExecute(Ctx, selected_objs), selected_objs)

(***************************************************************************)
(* Initial states: the scene parameters as register() declares them or as  *)
(* the user has set them, and a scene the host can be in.                  *)
(***************************************************************************)
DefaultPrefix == "textures/atrium/"
DefaultSuffix == ".vertex"

BaseObj(o) ==
    [type |-> ObjType[o], select |-> FALSE, scale |-> One, location |-> Zero,
     rotation |-> 0, co |-> One, data_rotation |-> 0, material_slots |-> <<>>,
     active_material_index |-> 0, faces |-> <<>>, vertex_groups |-> <<>>,
     keys |-> {}, modifiers |-> <<>>]

Face(id, material_index, select) ==
    [id |-> id, material_index |-> material_index, select |-> select]

NoRun == [listed |-> <<>>, writes |-> <<>>, edited |-> {}, log |-> <<>>,
          slotlog |-> <<>>]

InitWith(obs, mats, act, md, pv, factor, prefix, suffix, mat) ==
    /\ objects = obs
    /\ materials = mats
    /\ active = act
    /\ mode = md
    /\ pivot = pv
    /\ horizon_scale_factor = factor
    /\ horizon_mat_prefix = prefix
    /\ horizon_mat_suffix = suffix
    /\ horizon_remove_material = mat
    /\ op = None
    /\ status = None
    /\ reports = <<>>
    /\ run = NoRun
    /\ pre = [objects |-> obs, materials |-> mats, active |-> act, mode |-> md,
              horizon_scale_factor |-> factor, horizon_mat_prefix |-> prefix,
              horizon_mat_suffix |-> suffix, horizon_remove_material |-> mat]
    /\ hist = <<>>

Names(a, b, c) == [m \in Mat |-> IF m = "m1" THEN a ELSE IF m = "m2" THEN b ELSE c]

\* a scene with something for every operator to work on
Init ==
    \E sel \in SUBSET Obj, act \in Obj \cup {None}, md \in {"OBJECT", "EDIT"},
       factor \in {Zero, <<2, 1>>}, mat \in {None, "m1"} :
        InitWith(
            [o \in Obj |->
                IF o = "Cube"
                THEN [BaseObj(o) EXCEPT
                        !.select = o \in sel,
                        !.scale = <<2, 1>>,
                        !.material_slots = <<"m1", "m2">>,
                        !.faces = <<Face(1, 0, FALSE), Face(2, 1, TRUE)>>,
                        !.vertex_groups = <<"Group", "Group.001">>,
                        !.keys = {"_RNA_UI", "classname"}]
                ELSE IF o = "Wall"
                THEN [BaseObj(o) EXCEPT
                        !.select = o \in sel,
                        !.material_slots = <<"m3">>,
                        !.faces = <<Face(1, 0, FALSE)>>,
                        !.vertex_groups = <<"Group">>,
                        !.keys = {"a", "b"}]
                ELSE [BaseObj(o) EXCEPT
                        !.select = o \in sel,
                        !.keys = {"classname"}]],
            Names("textures/atrium/brick01.vertex",
                  "models/DefaultMaterial.vertex", "brick01"),
            act, md, "INDIVIDUAL_ORIGINS", factor, DefaultPrefix, DefaultSuffix,
            mat)

Next ==
    \/ HorizonScaleUpOperator
    \/ HorizonScaleDownOperator
    \/ HorizonCleanUpMatsOperator
    \/ HorizonRemoveGeoOperator
    \/ HorizonRemoveVertGroupsOperator
    \/ HorizonRemoveCustPropsOperator
    \/ HorizonTriangulateModOperator

Spec == Init /\ [][Next]_vars

(***************************************************************************)
(* Triangulate Mod over modifier stacks that already hold something.       *)
(***************************************************************************)
OldTriangulate(name) ==
    [name |-> name, type |-> "TRIANGULATE", quad_method |-> "SHORTEST_DIAGONAL",
     ngon_method |-> "BEAUTY", keep_custom_normals |-> FALSE]

ModifierKinds ==
    {OldTriangulate("Triangulate"), OldTriangulate("Triangulate.001"),
     [name |-> "Subdivision", type |-> "SUBSURF"]}

\* modifier stacks of at most n modifiers, their names distinct as the host
\* keeps them
Stacks(n) ==
    {q \in SeqsUpTo(ModifierKinds, n) :
        \A i, j \in 1..Len(q) : q[i].name = q[j].name => i = j}

InitTri ==
    \E sel \in SUBSET Obj, act \in Obj \cup {None}, cube \in Stacks(MaxMods),
       wall \in Stacks(1) :
        InitWith(
            [o \in Obj |->
                IF o = "Cube"
                THEN [BaseObj(o) EXCEPT !.select = o \in sel, !.modifiers = cube]
                ELSE IF o = "Wall"
                THEN [BaseObj(o) EXCEPT !.select = o \in sel, !.modifiers = wall]
                ELSE [BaseObj(o) EXCEPT !.select = o \in sel]],
            Names("textures/atrium/brick01.vertex",
                  "models/DefaultMaterial.vertex", "brick01"),
            act, "OBJECT", "INDIVIDUAL_ORIGINS", <<2, 1>>, DefaultPrefix,
            DefaultSuffix, None)

NextTri == HorizonTriangulateModOperator

SpecTri == InitTri /\ [][NextTri]_vars

(***************************************************************************)
(* The scale operators over objects whose transforms differ.               *)
(***************************************************************************)
InitScale ==
    \E sel \in {{}, {"Cube"}, {"Cube", "Wall"}, {"Wall", "Empty"}},
       act \in {None, "Cube", "Empty"},
       factor \in {Zero, <<2, 1>>, <<1, 2>>},
       pv \in {"INDIVIDUAL_ORIGINS", "CURSOR"},
       cubeScale \in {One, <<2, 1>>}, cubeLocation \in {Zero, One},
       wallScale \in {One, <<3, 1>>} :
        InitWith(
            [o \in Obj |->
                IF o = "Cube"
                THEN [BaseObj(o) EXCEPT !.select = o \in sel,
                                        !.scale = cubeScale,
                                        !.location = cubeLocation,
                                        !.rotation = 1]
                ELSE IF o = "Wall"
                THEN [BaseObj(o) EXCEPT !.select = o \in sel,
                                        !.scale = wallScale,
                                        !.location = One,
                                        !.co = <<3, 1>>]
                ELSE [BaseObj(o) EXCEPT !.select = o \in sel,
                                        !.location = <<2, 1>>]],
            Names("textures/atrium/brick01.vertex",
                  "models/DefaultMaterial.vertex", "brick01"),
            act, "OBJECT", pv, factor, DefaultPrefix, DefaultSuffix, None)

NextScale ==
    \/ HorizonScaleUpOperator
    \/ HorizonScaleDownOperator

SpecScale == InitScale /\ [][NextScale]_vars

(***************************************************************************)
(* Remove Geo over meshes with faces, in either interaction mode.          *)
(***************************************************************************)
\* the face lists of at most n faces: each uses slot 0 or 1 and is selected
\* or not
FaceLists(n) ==
    {[k \in 1..Len(q) |-> Face(k, q[k][1], q[k][2])] :
        q \in SeqsUpTo({0, 1} \X BOOLEAN, n)}

InitGeo ==
    \E sel \in {{"Cube"}, {"Cube", "Wall"}, {"Wall", "Empty"}, {"Empty"}},
       act \in {None, "Cube"}, md \in {"OBJECT", "EDIT"}, mat \in {None, "m1"},
       cubeSlots \in {<<>>, <<"m1">>, <<"m1", "m2">>, <<"m2", "m1">>,
                      <<"m1", "m1">>, <<"m2", None>>},
       cubeFaces \in FaceLists(MaxFaces),
       wallSlots \in {<<"m1">>, <<"m2">>} :
        InitWith(
            [o \in Obj |->
                IF o = "Cube"
                THEN [BaseObj(o) EXCEPT !.select = o \in sel,
                                        !.material_slots = cubeSlots,
                                        !.faces = cubeFaces]
                ELSE IF o = "Wall"
                THEN [BaseObj(o) EXCEPT
                        !.select = o \in sel,
                        !.material_slots = wallSlots,
                        !.faces = <<Face(1, 0, TRUE), Face(2, 0, FALSE)>>]
                ELSE [BaseObj(o) EXCEPT !.select = o \in sel]],
            Names("textures/atrium/brick01.vertex",
                  "models/DefaultMaterial.vertex", "brick01"),
            act, md, "INDIVIDUAL_ORIGINS", <<2, 1>>, DefaultPrefix,
            DefaultSuffix, mat)

NextGeo == HorizonRemoveGeoOperator

SpecGeo == InitGeo /\ [][NextGeo]_vars

(***************************************************************************)
(* Clean Up Mats over material names that meet the prefix, the suffix and  *)
(* the deny-list in different ways.                                        *)
(***************************************************************************)
NameTables ==
    {Names("textures/atrium/brick01.vertex", "models/DefaultMaterial.vertex",
           "brick01"),
     Names("textures/atrium/brick01.vertex", "textures/__TB_empty.vertex",
           "textures/atrium/brick01"),
     Names("textures/textures/wood.vertex.vertex", "textures/wood.vertex",
           "wood"),
     Names("models/DefaultMaterial.vertex", "textures/__TB_empty.vertex",
           "Material"),
     Names("textures/atrium/models/DefaultMaterial.vertex.vertex",
           "models/DefaultMaterial.vertex", "wood.vertex")}

InitMats ==
    \E sel \in {{"Cube"}, {"Cube", "Wall"}, {"Wall", "Empty"}},
       act \in {None, "Wall"},
       names \in NameTables,
       prefix \in {DefaultPrefix, "textures/", ""},
       suffix \in {DefaultSuffix, ""},
       cubeSlots \in SeqsUpTo(Mat \cup {None}, MaxSlots),
       wallSlots \in SeqsUpTo(Mat \cup {None}, 1) :
        InitWith(
            [o \in Obj |->
                IF o = "Cube"
                THEN [BaseObj(o) EXCEPT
                        !.select = o \in sel,
                        !.material_slots = cubeSlots,
                        !.faces = <<Face(1, 0, FALSE), Face(2, 1, FALSE)>>]
                ELSE IF o = "Wall"
                THEN [BaseObj(o) EXCEPT !.select = o \in sel,
                                        !.material_slots = wallSlots]
                ELSE [BaseObj(o) EXCEPT !.select = o \in sel]],
            names, act, "OBJECT", "INDIVIDUAL_ORIGINS", <<2, 1>>, prefix,
            suffix, None)

NextMats == HorizonCleanUpMatsOperator

SpecMats == InitMats /\ [][NextMats]_vars

(***************************************************************************)
(* Properties.  They read the scene against pre, the scene at the entry of *)
(* the last execute.                                                       *)
(***************************************************************************)
SceneUnchanged ==
    /\ objects = pre.objects
    /\ materials = pre.materials
    /\ active = pre.active
    /\ mode = pre.mode

WasSelected == {o \in Obj : pre.objects[o].select}

WasSelectedMesh == {o \in WasSelected : ObjType[o] = "MESH"}

\* the selection an operator works on: any object for the scale operators
\* and Remove Custom Props, meshes for the other four
RelevantSelection ==
    IF op \in {"horizon.scale_up", "horizon.scale_down", "horizon.remove_cust_props"}
    THEN WasSelected
    ELSE WasSelectedMesh

\* C1: an operator invoked with its relevant selection empty (nothing
\* selected, or for the four mesh operators no MESH selected, whatever else
\* is) returns CANCELLED and leaves the scene as it was: objects, materials,
\* mode and the active-object pointer, which it never assigns.
C1_EmptySelectionCancels ==
    (op # None /\ RelevantSelection = {}) =>
        /\ status = "CANCELLED"
        /\ SceneUnchanged
        /\ run.writes = <<>>

\* C1's case: a mesh operator run with only a non-mesh object selected
C1_Witness ==
    /\ op = "horizon.remove_geo"
    /\ pre.horizon_remove_material # None
    /\ pre.objects["Empty"].select
    /\ WasSelectedMesh = {}
    /\ status = "CANCELLED"

\* C2: an execute that returns CANCELLED has reported exactly one WARNING
\* and has changed nothing.
C2_CancelledWarnsOnce ==
    status = "CANCELLED" =>
        /\ Len(reports) = 1
        /\ reports[1][1] = "WARNING"
        /\ SceneUnchanged

\* C9: when execute returns FINISHED the active-object pointer is what it
\* was at entry, having been pointed at each listed object in turn and then
\* back; when execute returns CANCELLED the pointer was never assigned.
C9_ActiveRestored ==
    /\ status = "FINISHED" =>
        /\ active = pre.active
        /\ run.writes = run.listed \o <<pre.active>>
    /\ status = "CANCELLED" =>
        /\ active = pre.active
        /\ run.writes = <<>>

\* C9's case: Remove Geo finished over two meshes, one of them skipped for
\* want of a matching slot, the active object being none of them
C9_Witness ==
    /\ op = "horizon.remove_geo"
    /\ status = "FINISHED"
    /\ Len(run.listed) = 2
    /\ run.edited # {}
    /\ \E o \in WasSelectedMesh : o \notin run.edited
    /\ pre.active \notin WasSelectedMesh
    /\ active = pre.active

\* the scene at the entry of the first execute of the behaviour
FirstScene == IF hist = <<>> THEN pre ELSE hist[1].pre

\* how many of the executes so far returned FINISHED
FinishedRuns ==
    Cardinality({i \in 1..Len(hist) : hist[i].status = "FINISHED"})
    + (IF status = "FINISHED" THEN 1 ELSE 0)

IsTriangulate(m) == m.type = "TRIANGULATE"

TriangulateCount(mods) == Len(SelectSeq(mods, IsTriangulate))

NewTriangulate(m) ==
    /\ m.type = "TRIANGULATE"
    /\ m.quad_method = "BEAUTY"
    /\ m.ngon_method = "BEAUTY"
    /\ m.keep_custom_normals = TRUE

\* C8: a finished Triangulate Mod appends exactly one TRIANGULATE modifier
\* (BEAUTY, BEAUTY, keep custom normals) at the end of the stack of every
\* selected mesh and changes no modifier that was there; every other object
\* keeps its stack; so k finished runs over one selection leave every
\* selected mesh with k more triangulation modifiers than it started with.
C8_TriangulateStacks ==
    (op = "horizon.triangulate_mod" /\ status = "FINISHED") =>
        \A o \in Obj :
            LET now == objects[o].modifiers
                was == pre.objects[o].modifiers
                first == FirstScene.objects[o].modifiers
            IN  IF o \in WasSelectedMesh
                THEN /\ Len(now) = Len(was) + 1
                     /\ SubSeq(now, 1, Len(was)) = was
                     /\ NewTriangulate(now[Len(now)])
                     /\ TriangulateCount(now) = TriangulateCount(first) + FinishedRuns
                ELSE /\ now = was
                     /\ now = first

\* C8's case: the second finished run over a mesh that already carried a
\* triangulation modifier, a non-mesh object being selected as well
C8_Witness ==
    /\ op = "horizon.triangulate_mod"
    /\ status = "FINISHED"
    /\ FinishedRuns = 2
    /\ "Cube" \in WasSelectedMesh
    /\ "Empty" \in WasSelected
    /\ TriangulateCount(FirstScene.objects["Cube"].modifiers) = 1
    /\ TriangulateCount(objects["Cube"].modifiers) = 3

ScaleFinished ==
    /\ op \in {"horizon.scale_up", "horizon.scale_down"}
    /\ status = "FINISHED"

\* the value the last scale operator resized by
ResizeValue ==
    IF op = "horizon.scale_up" THEN pre.horizon_scale_factor
    ELSE RInv(pre.horizon_scale_factor)

\* the last two executes were Scale Up then Scale Down, both finished, with
\* one factor and one selection
RoundTrip ==
    /\ op = "horizon.scale_down"
    /\ status = "FINISHED"
    /\ hist # <<>>
    /\ hist[Len(hist)].op = "horizon.scale_up"
    /\ hist[Len(hist)].status = "FINISHED"
    /\ hist[Len(hist)].pre.horizon_scale_factor = pre.horizon_scale_factor
    /\ {o \in Obj : hist[Len(hist)].pre.objects[o].select} = WasSelected

\* the scene before the Scale Up of a round trip
Original == hist[Len(hist)].pre

\* after a finished scale operator every selected object reports scale 1,
\* its geometry has taken up the scale it had and the factor, and neither
\* location nor rotation went into the geometry; the others are as they were
ScaleBaked ==
    ScaleFinished =>
        \A o \in Obj :
            IF o \in WasSelected
            THEN /\ objects[o].scale = One
                 /\ objects[o].co = RMul(RMul(pre.objects[o].co, pre.objects[o].scale),
                                         ResizeValue)
                 /\ objects[o].rotation = pre.objects[o].rotation
                 /\ objects[o].data_rotation = pre.objects[o].data_rotation
                 /\ objects[o].location =
                        IF pivot = "CURSOR"
                        THEN RMul(pre.objects[o].location, ResizeValue)
                        ELSE pre.objects[o].location
            ELSE objects[o] = pre.objects[o]

\* C7 as stated: Scale Up by f then Scale Down by f over one selection
\* restores every selected object's original object-space geometry, the
\* scale reported after each operator being 1 and location and rotation
\* never baked.
C7_RoundTripRestores ==
    /\ ScaleBaked
    /\ RoundTrip => \A o \in WasSelected : objects[o].co = Original.objects[o].co

\* C7 as the code has it: the round trip leaves every selected object's
\* geometry at its original geometry times its original scale (the original
\* geometry when that scale was 1); after each operator the scale reported
\* is 1, and location and rotation are never baked.
C7_RoundTripKeepsBakedGeometry ==
    /\ ScaleBaked
    /\ RoundTrip =>
        \A o \in WasSelected :
            /\ objects[o].co = RMul(Original.objects[o].co, Original.objects[o].scale)
            /\ Original.objects[o].scale = One => objects[o].co = Original.objects[o].co
            /\ objects[o].scale = One
            /\ pre.objects[o].scale = One

\* C7's case: a round trip by 2 over two selected objects, one of which
\* started with scale 2, and neither of them active
C7_Witness ==
    /\ RoundTrip
    /\ WasSelected = {"Cube", "Wall"}
    /\ pre.horizon_scale_factor = <<2, 1>>
    /\ Original.objects["Cube"].scale = <<2, 1>>
    /\ Original.objects["Wall"].scale = One
    /\ objects["Wall"].co = Original.objects["Wall"].co
    /\ Original.active = None

RemoveGeoFinished == op = "horizon.remove_geo" /\ status = "FINISHED"

\* the indices (from 0) of the slots o had bound to the chosen material
BoundSlots(o) ==
    {i \in 0..(Len(pre.objects[o].material_slots) - 1) :
        pre.objects[o].material_slots[i + 1] = pre.horizon_remove_material}

FaceKey(f) == <<f.id, f.material_index>>

Keys(faces) == [k \in 1..Len(faces) |-> FaceKey(faces[k])]

\* the faces o had that use none of the slots bound to the chosen material
OtherFaces(o) ==
    LET Other(f) == f.material_index \notin BoundSlots(o)
    IN  SelectSeq(pre.objects[o].faces, Other)

\* C6: after a finished Remove Geo every selected mesh with a slot bound to
\* the chosen material has lost exactly the faces that use such a slot and
\* kept the others, in order; a selected mesh with no such slot is as it
\* was and edit mode was never asked for it; unselected and non-mesh
\* objects are as they were.
C6_RemoveGeoFaces ==
    RemoveGeoFinished =>
        \A o \in Obj :
            IF o \in WasSelectedMesh /\ BoundSlots(o) # {}
            THEN /\ Keys(objects[o].faces) = Keys(OtherFaces(o))
                 /\ [objects[o] EXCEPT !.faces = <<>>]
                        = [pre.objects[o] EXCEPT !.faces = <<>>]
                 /\ o \in run.edited
            ELSE /\ objects[o] = pre.objects[o]
                 /\ o \notin run.edited

\* C6's case: a selected mesh loses a face bound to the material and keeps
\* one that is not, although that one was selected in the mesh; another
\* selected mesh has no slot bound to the material
C6_Witness ==
    /\ RemoveGeoFinished
    /\ \E o \in WasSelectedMesh :
        /\ BoundSlots(o) # {}
        /\ Len(objects[o].faces) < Len(pre.objects[o].faces)
        /\ \E k \in 1..Len(pre.objects[o].faces) :
            /\ pre.objects[o].faces[k].select
            /\ pre.objects[o].faces[k].material_index \notin BoundSlots(o)
    /\ \E o \in WasSelectedMesh :
        /\ BoundSlots(o) = {}
        /\ pre.objects[o].faces # <<>>

\* C10: after a finished Remove Geo the interaction mode is the one in
\* effect when the operator was invoked, object mode or edit mode.
C10_ModeRestored == RemoveGeoFinished => mode = pre.mode

CleanUpFinished == op = "horizon.clean_up_mats" /\ status = "FINISHED"

\* the name the specification gives a material named n under prefix p and
\* suffix s, n starting with p: n without the leading p, and without the
\* trailing s when what is left ends with s
StrippedName(n, p, s) ==
    LET r == SubSeq(n, Len(p) + 1, Len(n))
    IN  IF endswith(r, s) THEN SubSeq(r, 1, Len(r) - Len(s)) ELSE r

\* C3: for every slot of the rename pass, a material whose name does not
\* start with the prefix is left untouched, and one whose name does is
\* given the name between the prefix and the suffix (the suffix cut only
\* when the remainder ends with it), for any prefix and suffix, the empty
\* ones included.
C3_NameExtraction ==
    CleanUpFinished =>
        \A k \in 1..Len(run.slotlog) :
            LET e == run.slotlog[k]
            IN  IF startswith(e.mat_name, pre.horizon_mat_prefix)
                THEN /\ e.what # "untouched"
                     /\ e.extracted = StrippedName(e.mat_name, pre.horizon_mat_prefix,
                                                   pre.horizon_mat_suffix)
                ELSE e.what = "untouched"

NamesDistinct == \A a, b \in Mat : materials[a] = materials[b] => a = b

\* C4: a matching slot is rebound when a material of the stripped name
\* exists and its material renamed when none does; after Clean Up Mats the
\* material names are pairwise distinct and every slot that held a
\* prefix-matching material is bound to the material that carries the
\* stripped name.
C4_DeduplicatedByName ==
    CleanUpFinished =>
        /\ NamesDistinct
        /\ \A k \in 1..Len(run.slotlog) :
            LET e == run.slotlog[k]
                target == StrippedName(e.mat_name, pre.horizon_mat_prefix,
                                       pre.horizon_mat_suffix)
            IN  startswith(e.mat_name, pre.horizon_mat_prefix) =>
                    IF \E m \in Mat : e.names[m] = target
                    THEN e.what = "rebound" /\ e.names[e.existing] = target
                    ELSE e.what = "renamed"
        /\ \A i \in 1..Len(run.log) :
            LET e == run.log[i]
            IN  \A k \in 1..Len(e.kept) :
                    (/\ e.kept[k] # None
                     /\ startswith(pre.materials[e.kept[k]], pre.horizon_mat_prefix))
                    => materials[objects[e.obj].material_slots[k]]
                        = StrippedName(pre.materials[e.kept[k]],
                                       pre.horizon_mat_prefix,
                                       pre.horizon_mat_suffix)

DenyList == {"models/DefaultMaterial.vertex", "textures/__TB_empty.vertex"}

RECURSIVE Pick(_, _, _)
\* the elements of s at the indices of I that are k or more, in s's order
Pick(s, I, k) ==
    IF k > Len(s) THEN <<>>
    ELSE (IF k \in I THEN <<s[k]>> ELSE <<>>) \o Pick(s, I, k + 1)

\* slot k (from 1) of the mesh of log entry e held a deny-listed material
\* when the mesh's slots were scanned
Denied(e, k) ==
    /\ e.scan_slots[k] # None
    /\ e.scan_names[e.scan_slots[k]] \in DenyList

=============================================================================
